---------------------------- MODULE Spec2Model ----------------------------
(***************************************************************************)
(* A model of the PyChess rules engine: BoardManager / Board (board.py)    *)
(* and the piece classes (pieces.py).                                      *)
(*                                                                         *)
(* A board is a record holding what a Board object holds: the 8x8 fields   *)
(* grid, the piece objects (each with its own recorded x, y and flags),    *)
(* the two colour registries, the king references and the castling flags.  *)
(* copy.deepcopy(board) is the record itself: every operator below is a    *)
(* function from board records to board records.                           *)
(*                                                                         *)
(* A Python exception is modelled as a value: operators that can raise     *)
(* return a record with an err field naming the exception.  Iteration over *)
(* a Python set of piece objects has no fixed order, so a loop that may    *)
(* either return or raise depending on that order yields both outcomes.    *)
(***************************************************************************)
EXTENDS Integers, Sequences, FiniteSets

WHITE == "white"
BLACK == "black"
KING == "K"
QUEEN == "Q"
ROOK == "R"
BISHOP == "B"
KNIGHT == "N"
PAWN == "P"

\* Python's None, for an empty field or a missing reference.
None == 0

\* Exceptions (exceptions.py) and the two built-in ones the code can hit.
NoError == "none"
InvalidFieldError == "InvalidFieldError"
IllegalMoveError == "IllegalMoveError"
NoPieceError == "NoPieceError"
InvalidPieceError == "InvalidPieceError"
AttributeError == "AttributeError"
AssertionError == "AssertionError"

ChessExceptions ==
  {InvalidFieldError, IllegalMoveError, NoPieceError, InvalidPieceError}

\* The board is 8 x 8: Board.__init__ builds 8 rows of 8 fields.
Size == 8

\* Requests reach up to Margin squares beyond the board on each side.
Margin == 1

\* Accepted moves after which a BoardManager is asked nothing more.
MaxPly == 5

\* Accepted moves after which a Game is asked nothing more.
MaxGamePly == 1

\* The coordinates furthest off the board on either side
Edge == {1 - Margin, Size + Margin}
Fields == (1..Size) \X (1..Size)

Abs(n) == IF n < 0 THEN -n ELSE n
Min(a, b) == IF a < b THEN a ELSE b

\* len(range(v + 1, 8)) and len(range(v - 1, -1, -1))
RangeUp(v) == IF 8 - (v + 1) > 0 THEN 8 - (v + 1) ELSE 0
RangeDown(v) == IF v > 0 THEN v ELSE 0

-----------------------------------------------------------------------------
(* Board (board.py)                                                        *)

\* Piece.__init__ and the subclasses' flags: castle is King._castle_available
\* or Rook._can_castle, en_passant is Pawn._en_passant.
Piece(type, color, x, y) ==
  [type |-> type, color |-> color, x |-> x, y |-> y,
   castle |-> type \in {KING, ROOK}, en_passant |-> FALSE]

\* Piece.opp_color, as a function of the colour
opp_color(color) == IF color = BLACK THEN WHITE ELSE BLACK

Ret(v) == [err |-> NoError, value |-> v]
Raise(e) == [err |-> e, value |-> None]

\* Board.get_piece without its range test: self.fields[y - 1][x - 1] raises
\* IndexError past the end of a list and counts a negative index from its end
get_piece_unchecked(b, x, y) ==
  LET index(v) == IF v <= 0 THEN v + Size ELSE v
  IN IF x > Size \/ y > Size \/ x <= -Size \/ y <= -Size
     THEN Raise("IndexError")
     ELSE Ret(b.fields[<<index(x), index(y)>>])

\* Board.get_piece(x, y)
get_piece(b, x, y) ==
  IF x <= 0 \/ x > 8 \/ y <= 0 \/ y > 8
  THEN Raise(InvalidFieldError)
  ELSE Ret(b.fields[<<x, y>>])

\* Board.get_piece(fields=[...]): the pieces on each of the fields
RECURSIVE get_piece_fields(_, _)
get_piece_fields(b, fields) ==
  IF fields = <<>> THEN Ret(<<>>)
  ELSE LET first == get_piece(b, Head(fields)[1], Head(fields)[2])
           rest == get_piece_fields(b, Tail(fields))
       IN IF first.err # NoError THEN Raise(first.err)
          ELSE IF rest.err # NoError THEN Raise(rest.err)
          ELSE Ret(<<first.value>> \o rest.value)

\* Board.get_pieces(color=...): the colour's registry
get_pieces(b, color) ==
  IF color = WHITE THEN b.white_pieces ELSE b.black_pieces

\* Board.pick_piece(piece)
pick_piece(b, p) ==
  [b EXCEPT !.fields[<<b.pieces[p].x, b.pieces[p].y>>] = None]

\* Board.put_piece(piece, x, y)
put_piece(b, p, x, y) ==
  [b EXCEPT !.pieces[p].x = x, !.pieces[p].y = y, !.fields[<<x, y>>] = p]

\* Board.move_piece(piece, x, y): pick the piece up and put it on the target
Board_move_piece(b, p, x, y) == put_piece(pick_piece(b, p), p, x, y)

\* Board.remove_piece clearing the field and leaving the registry alone
remove_piece_field_only(b, p) ==
  LET piece == b.fields[<<b.pieces[p].x, b.pieces[p].y>>]
  IN [b EXCEPT !.fields[<<b.pieces[piece].x, b.pieces[piece].y>>] = None]

\* Board.remove_piece(piece)
remove_piece(b, p) ==
  LET piece == b.fields[<<b.pieces[p].x, b.pieces[p].y>>]
      at == <<b.pieces[piece].x, b.pieces[piece].y>>
  IN IF b.pieces[piece].color = WHITE
     THEN [b EXCEPT !.white_pieces = @ \ {piece}, !.fields[at] = None]
     ELSE [b EXCEPT !.black_pieces = @ \ {piece}, !.fields[at] = None]


-----------------------------------------------------------------------------
(* Piece geometry (pieces.py)                                              *)

\* A possibly raising set of fields, as _possible_moves builds it.
Found(fields) == [err |-> NoError, fields |-> fields]
Union2(r, s) ==
  IF r.err # NoError THEN r
  ELSE IF s.err # NoError THEN s
  ELSE Found(r.fields \cup s.fields)

\* check_and_add adding the field of a piece of its own colour as it adds an
\* opponent's
RECURSIVE check_and_add_own(_, _, _, _, _, _, _)
check_and_add_own(b, color, x, y, dx, dy, n) ==
  IF n = 0 THEN Found({})
  ELSE LET piece == get_piece(b, x, y)
       IN IF piece.err # NoError THEN [err |-> piece.err, fields |-> {}]
          ELSE IF piece.value = None
          THEN Union2(Found({<<x, y>>}),
                      check_and_add_own(b, color, x + dx, y + dy, dx, dy, n - 1))
          ELSE Found({<<x, y>>})

\* One for-loop of _possible_moves with its check_and_add: n squares from
\* (x, y) in steps of (dx, dy), until check_and_add returns True.
RECURSIVE check_and_add(_, _, _, _, _, _, _)
check_and_add(b, color, x, y, dx, dy, n) ==
  IF n = 0 THEN Found({})
  ELSE LET piece == get_piece(b, x, y)
       IN IF piece.err # NoError THEN [err |-> piece.err, fields |-> {}]
          ELSE IF piece.value = None
          THEN Union2(Found({<<x, y>>}),
                      check_and_add(b, color, x + dx, y + dy, dx, dy, n - 1))
          ELSE IF b.pieces[piece.value].color # color
          THEN Found({<<x, y>>})
          ELSE Found({})

\* LineMovementMixin._possible_moves
Line_possible_moves(b, p) ==
  LET s == b.pieces[p]
  IN Union2(
       Union2(check_and_add(b, s.color, s.x - 1, s.y, -1, 0, RangeDown(s.x)),
              check_and_add(b, s.color, s.x + 1, s.y, 1, 0, RangeUp(s.x))),
       Union2(check_and_add(b, s.color, s.x, s.y - 1, 0, -1, RangeDown(s.y)),
              check_and_add(b, s.color, s.x, s.y + 1, 0, 1, RangeUp(s.y))))

\* DiagonalMovementMixin._possible_moves
Diagonal_possible_moves(b, p) ==
  LET s == b.pieces[p]
  IN Union2(
       Union2(check_and_add(b, s.color, s.x + 1, s.y + 1, 1, 1,
                            Min(RangeUp(s.x), RangeUp(s.y))),
              check_and_add(b, s.color, s.x + 1, s.y - 1, 1, -1,
                            Min(RangeUp(s.x), RangeDown(s.y)))),
       Union2(check_and_add(b, s.color, s.x - 1, s.y + 1, -1, 1,
                            Min(RangeDown(s.x), RangeUp(s.y))),
              check_and_add(b, s.color, s.x - 1, s.y - 1, -1, -1,
                            Min(RangeDown(s.x), RangeDown(s.y)))))

\* Queen: DiagonalMovementMixin._possible_moves updated with
\* LineMovementMixin._possible_moves
Queen_possible_moves(b, p) ==
  Union2(Diagonal_possible_moves(b, p), Line_possible_moves(b, p))

\* Pawn._forward
forward(color) == IF color = WHITE THEN 1 ELSE -1

\* Pawn._starting_rank
starting_rank(color) == IF color = WHITE THEN 1 ELSE 6

\* Pawn.attacked_fields
attacked_fields(b, p) ==
  LET s == b.pieces[p]
      y == s.y + forward(s.color)
  IN IF 7 > y /\ y > 0
     THEN (IF s.x > 0 THEN {<<s.x - 1, y>>} ELSE {})
          \cup (IF s.x < 7 THEN {<<s.x + 1, y>>} ELSE {})
     ELSE {}

\* King.can_attack_field
King_can_attack_field(b, p, fields) ==
  LET s == b.pieces[p]
  IN Ret(\E f \in fields :
           /\ Abs(s.x - f[1]) <= 1
           /\ Abs(s.y - f[2]) <= 1
           /\ (f[1] # s.x \/ f[2] # s.y))

\* Knight.can_attack_field
Knight_can_attack_field(b, p, fields) ==
  LET s == b.pieces[p]
  IN Ret(\E f \in fields : {Abs(f[1] - s.x), Abs(f[2] - s.y)} = {1, 2})

\* Queen / Rook / Bishop.can_attack_field: the scan may raise
Sliding_can_attack_field(moves, fields) ==
  IF moves.err # NoError THEN Raise(moves.err)
  ELSE Ret(moves.fields \cap fields # {})

\* Pawn.can_attack_field
Pawn_can_attack_field(b, p, fields) ==
  Ret(attacked_fields(b, p) \cap fields # {})

\* piece.can_attack_field(x, y) / (fields=...), dispatched on the class
can_attack_field(b, p, fields) ==
  LET type == b.pieces[p].type
  IN CASE type = KING -> King_can_attack_field(b, p, fields)
       [] type = KNIGHT -> Knight_can_attack_field(b, p, fields)
       [] type = PAWN -> Pawn_can_attack_field(b, p, fields)
       [] type = ROOK ->
            Sliding_can_attack_field(Line_possible_moves(b, p), fields)
       [] type = BISHOP ->
            Sliding_can_attack_field(Diagonal_possible_moves(b, p), fields)
       [] type = QUEEN ->
            Sliding_can_attack_field(Queen_possible_moves(b, p), fields)

-----------------------------------------------------------------------------
(* Moving a piece (pieces.py)                                              *)

Done(b) == [err |-> NoError, board |-> b]
Failed(e, b) == [err |-> e, board |-> b]

\* Piece.set_position
Piece_set_position(b, p, x, y) ==
  LET b1 == Board_move_piece(b, p, x, y)
  IN Done([b1 EXCEPT !.pieces[p].x = x, !.pieces[p].y = y])

\* Rook.set_position
Rook_set_position(b, p, x, y) ==
  Piece_set_position([b EXCEPT !.pieces[p].castle = FALSE], p, x, y)

\* Pawn.set_position
Pawn_set_position(b, p, x, y) ==
  LET s == b.pieces[p]
  IN IF Abs(y - s.y) = 2
     THEN Piece_set_position([b EXCEPT !.pieces[p].en_passant = TRUE], p, x, y)
     ELSE IF <<x, y>> \in attacked_fields(b, p)
     THEN LET target == get_piece(b, x, y)
              pawn == get_piece(b, x, s.y)
          IN IF target.err # NoError THEN Failed(target.err, b)
             ELSE IF target.value # None THEN Piece_set_position(b, p, x, y)
             ELSE IF pawn.err # NoError THEN Failed(pawn.err, b)
             ELSE IF \/ pawn.value = None
                     \/ b.pieces[pawn.value].type # PAWN
                     \/ ~b.pieces[pawn.value].en_passant
             THEN Failed(AssertionError, b)
             ELSE Piece_set_position(remove_piece(b, pawn.value), p, x, y)
     ELSE Piece_set_position(b, p, x, y)

RECURSIVE set_position(_, _, _, _)

\* King.set_position
King_set_position(b, p, to_x, to_y) ==
  LET s == b.pieces[p]
      rook == IF to_x - s.x = -2
              THEN get_piece(b, 0, s.y)
              ELSE get_piece(b, 7, s.y)
      step == IF to_x - s.x < 0 THEN -1 ELSE 1
      castled == set_position(b, rook.value, s.x + step, s.y)
  IN IF s.castle /\ Abs(to_x - s.x) = 2 /\ to_y - s.y = 0
     THEN IF rook.err # NoError THEN Failed(rook.err, b)
          ELSE IF rook.value = None THEN Failed(AttributeError, b)
          ELSE IF castled.err # NoError THEN castled
          ELSE Piece_set_position(
                 [castled.board EXCEPT !.pieces[p].castle = FALSE],
                 p, to_x, to_y)
     ELSE Piece_set_position([b EXCEPT !.pieces[p].castle = FALSE],
                             p, to_x, to_y)

\* piece.set_position(x, y), dispatched on the class
set_position(b, p, x, y) ==
  LET type == b.pieces[p].type
  IN CASE type = KING -> King_set_position(b, p, x, y)
       [] type = ROOK -> Rook_set_position(b, p, x, y)
       [] type = PAWN -> Pawn_set_position(b, p, x, y)
       [] OTHER -> Piece_set_position(b, p, x, y)

Answers == {"True", "False"}

\* What one call of can_attack_field did: its answer or the exception
Attack(r) ==
  IF r.err # NoError THEN r.err ELSE IF r.value THEN "True" ELSE "False"

\* A loop that returns some at the first piece attacking and none at its end,
\* given what can_attack_field does for each piece: the outcomes over every
\* iteration order of the set of pieces.
LoopOutcomes(attacks, none, some) ==
  IF attacks \subseteq {"False"} THEN {none}
  ELSE (IF "True" \in attacks THEN {some} ELSE {}) \cup (attacks \ Answers)

\* for opp_piece in board.get_pieces(color=...):
\*     if opp_piece.can_attack_field(...): return some
\* return none
AttackLoop(b, color, fields, none, some) ==
  LoopOutcomes({Attack(can_attack_field(b, q, fields)) :
                  q \in get_pieces(b, color)}, none, some)

\* Piece.check_move from the king look-up on, moved being what
\* piece.set_position did on the copy of the board
KingSafe(moved, color) ==
  LET kings == {k \in get_pieces(moved.board, color) :
                  moved.board.pieces[k].type = KING}
      king == moved.board.pieces[CHOOSE k \in kings : TRUE]
  IN IF moved.err # NoError THEN {moved.err}
     ELSE IF kings = {} THEN {"StopIteration"}
     ELSE AttackLoop(moved.board, opp_color(color),
                     {<<king.x, king.y>>}, "True", "False")

\* Piece.check_move: the possible outcomes, "True", "False" or an exception
check_move(b, p, to_x, to_y) ==
  LET s == b.pieces[p]
      piece == get_piece(b, s.x, s.y)
  IN IF piece.err # NoError THEN {piece.err}
     ELSE IF piece.value = None THEN {AttributeError}
     ELSE KingSafe(set_position(Board_move_piece(b, piece.value, to_x, to_y),
                                piece.value, to_x, to_y),
                   s.color)

\* The moves that pass check_move, checks pairing each candidate with the
\* outcomes of its check_move, and extra the moves added without it.
Passed(checks, extra) ==
  [errs |-> UNION {c[2] \ Answers : c \in checks},
   returns |-> \A c \in checks : c[2] \cap Answers # {},
   moves |-> extra \cup {c[1] : c \in {d \in checks : "True" \in d[2]}}]

\* What get_possible_moves can do: raise one of errs, or (returns) return moves.
\* pre is an exception raised while the candidates are collected, cands the
\* candidates handed to check_move, extra the moves added without it.
Checked(b, p, pre, cands, extra) ==
  IF pre # {}
  THEN [errs |-> pre, returns |-> FALSE, moves |-> {}]
  ELSE Passed({<<c, check_move(b, p, c[1], c[2])>> : c \in cands}, extra)

\* King.can_castle: the possible outcomes
can_castle(b, p, castle_type) ==
  LET s == b.pieces[p]
      rook == IF castle_type = "long"
              THEN get_piece(b, 0, s.y)
              ELSE get_piece(b, 7, s.y)
      r == b.pieces[rook.value]
      path == [i \in 1..(IF r.x > s.x THEN r.x - s.x ELSE 0) |->
                 <<s.x + i - 1, s.y>>]
      between == get_piece_fields(b, IF path = <<>> THEN <<>> ELSE Tail(path))
      crossed == {path[i] : i \in 1..Min(3, Len(path))}
  IN IF ~s.castle THEN {"False"}
     ELSE IF rook.err # NoError THEN {rook.err}
     ELSE IF rook.value = None THEN {"False"}
     ELSE IF ~(r.type = ROOK /\ r.castle) THEN {"False"}
     ELSE IF between.err # NoError THEN {between.err}
     ELSE IF \E i \in 1..Len(between.value) : between.value[i] # None
     THEN {"False"}
     ELSE AttackLoop(b, opp_color(s.color), crossed, "True", "False")

\* King.get_possible_moves, long and short being what the two can_castle
\* calls do
King_moves(b, p, long, short) ==
  LET s == b.pieces[p]
      castles == (IF "True" \in long THEN {<<s.x - 2, s.y>>} ELSE {})
                   \cup (IF "True" \in short THEN {<<s.x + 2, s.y>>} ELSE {})
      steps == {<<s.x + dx, s.y + dy>> : dx \in {-1, 0, 1}, dy \in {-1, 0, 1}}
                 \ {<<s.x, s.y>>}
      inside == {f \in steps : ~(f[1] >= 8 \/ f[2] >= 8 \/ f[1] < 0 \/ f[2] < 0)}
      free == {f \in inside :
                 /\ get_piece(b, f[1], f[2]).err = NoError
                 /\ LET q == get_piece(b, f[1], f[2]).value
                    IN ~(q # None /\ b.pieces[q].color = s.color)}
  IN IF long \cap Answers = {}
     THEN [errs |-> long, returns |-> FALSE, moves |-> {}]
     ELSE IF short \cap Answers = {}
     THEN [errs |-> (long \cup short) \ Answers, returns |-> FALSE,
           moves |-> {}]
     ELSE [Checked(b, p,
                   {get_piece(b, f[1], f[2]).err : f \in inside} \ {NoError},
                   free, castles)
             EXCEPT !.errs = @ \cup ((long \cup short) \ Answers)]

\* King.get_possible_moves
King_get_possible_moves(b, p) ==
  King_moves(b, p, can_castle(b, p, "long"), can_castle(b, p, "short"))

\* Queen / Rook / Bishop.get_possible_moves
Sliding_get_possible_moves(b, p, moves) ==
  Checked(b, p, {moves.err} \ {NoError}, moves.fields, {})

\* Knight.get_possible_moves
Knight_get_possible_moves(b, p) ==
  LET s == b.pieces[p]
      moves == {<<x, y>> : x \in {s.x - 2, s.x + 2}, y \in {s.y - 1, s.y + 1}}
                 \cup {<<x, y>> : x \in {s.x - 1, s.x + 1},
                                  y \in {s.y - 2, s.y + 2}}
      inside == {f \in moves : 0 <= f[1] /\ f[1] < 8 /\ 0 <= f[2] /\ f[2] < 8}
      free == {f \in inside :
                 /\ get_piece(b, f[1], f[2]).err = NoError
                 /\ LET q == get_piece(b, f[1], f[2]).value
                    IN q = None \/ b.pieces[q].color # s.color}
  IN Checked(b, p,
             {get_piece(b, f[1], f[2]).err : f \in inside} \ {NoError},
             free, {})

\* Pawn.get_possible_moves
Pawn_get_possible_moves(b, p) ==
  LET s == b.pieces[p]
      attacked == attacked_fields(b, p)
      captures ==
        {pos \in attacked :
           /\ get_piece(b, pos[1], pos[2]).err = NoError
           /\ LET piece == get_piece(b, pos[1], pos[2]).value
                  beside == get_piece(b, pos[1], s.y).value
              IN IF piece = None
                 THEN /\ beside # None
                      /\ b.pieces[beside].type = PAWN
                      /\ b.pieces[beside].color = opp_color(s.color)
                      /\ b.pieces[beside].en_passant
                 ELSE b.pieces[piece].color = opp_color(s.color)}
      fields_ahead ==
        get_piece_fields(b, <<<<s.x, s.y + forward(s.color)>>,
                              <<s.x, s.y + forward(s.color) * 2>>>>)
      ahead == fields_ahead.value
      double == IF /\ s.y = starting_rank(s.color)
                   /\ ahead[1] = None /\ ahead[2] = None
                THEN {<<s.x, s.y + forward(s.color) * 2>>} ELSE {}
      single == IF ahead[1] = None
                THEN {<<s.x, s.y + forward(s.color)>>} ELSE {}
      pre == ({get_piece(b, pos[1], pos[2]).err : pos \in attacked}
                \cup {fields_ahead.err}) \ {NoError}
  IN IF pre # {}
     THEN Checked(b, p, pre, {}, {})
     ELSE Checked(b, p, {}, captures \cup double \cup single, {})

\* piece.get_possible_moves(), dispatched on the class
get_possible_moves(b, p) ==
  LET type == b.pieces[p].type
  IN CASE type = KING -> King_get_possible_moves(b, p)
       [] type = KNIGHT -> Knight_get_possible_moves(b, p)
       [] type = PAWN -> Pawn_get_possible_moves(b, p)
       [] type = ROOK ->
            Sliding_get_possible_moves(b, p, Line_possible_moves(b, p))
       [] type = BISHOP ->
            Sliding_get_possible_moves(b, p, Diagonal_possible_moves(b, p))
       [] type = QUEEN ->
            Sliding_get_possible_moves(b, p, Queen_possible_moves(b, p))

\* self.get_possible_moves() of every piece of the player on the board
PossibleMoves(b, player) ==
  [p \in {q \in {b.fields[f] : f \in Fields} \ {None} :
            b.pieces[q].color = player} |-> get_possible_moves(b, p)]

\* Piece.move picking the piece up before the test and not putting it back
\* when the move is illegal
move_picked_up(b, p, possible, x, y) ==
  {Failed(e, b) : e \in possible.errs}
       \cup (IF ~possible.returns THEN {}
             ELSE IF <<x, y>> \in possible.moves
             THEN {set_position(b, p, x, y)}
             ELSE {Failed(IllegalMoveError, pick_piece(b, p))})

\* Piece.move: the possible outcomes of piece.move(x, y), with possible what
\* self.get_possible_moves() does
move(b, p, possible, x, y) ==
  {Failed(e, b) : e \in possible.errs}
       \cup (IF ~possible.returns THEN {}
             ELSE IF <<x, y>> \in possible.moves
             THEN {set_position(b, p, x, y)}
             ELSE {Failed(IllegalMoveError, b)})

-----------------------------------------------------------------------------
(* Reachability as chess.py and the tests use it                           *)

\* The pieces standing on the fields of a board
Standing(b) == {b.fields[f] : f \in Fields} \ {None}

\* The fields strictly between two fields of a rank, a file or a diagonal
Between(f, g) ==
  {h \in Fields :
     /\ h # f /\ h # g
     /\ Abs(h[1] - f[1]) + Abs(g[1] - h[1]) = Abs(g[1] - f[1])
     /\ Abs(h[2] - f[2]) + Abs(g[2] - h[2]) = Abs(g[2] - f[2])
     /\ (h[1] - f[1]) * (g[2] - f[2]) = (h[2] - f[2]) * (g[1] - f[1])}

\* piece.can_attack(x, y): the piece q attacks the field g. A king attacks
\* the fields next to it, a knight those a knight's jump away, a rook, bishop
\* or queen those along its rays up to the first piece, a pawn the two
\* fields diagonally ahead.
Attacks(b, q, g) ==
  LET s == b.pieces[q]
      dx == Abs(g[1] - s.x)
      dy == Abs(g[2] - s.y)
      clear == \A h \in Between(<<s.x, s.y>>, g) : b.fields[h] = None
  IN /\ g # <<s.x, s.y>>
     /\ CASE s.type = KING -> dx <= 1 /\ dy <= 1
          [] s.type = KNIGHT -> {dx, dy} = {1, 2}
          [] s.type = ROOK -> (dx = 0 \/ dy = 0) /\ clear
          [] s.type = BISHOP -> dx = dy /\ clear
          [] s.type = QUEEN -> (dx = 0 \/ dy = 0 \/ dx = dy) /\ clear
          [] s.type = PAWN -> dx = 1 /\ g[2] - s.y = forward(s.color)

\* A field is attacked by a piece of the colour standing on the board
Attacked(b, color, g) ==
  \E q \in Standing(b) : b.pieces[q].color = color /\ Attacks(b, q, g)

\* The rank the pawns of a colour start on
home_rank(color) == IF color = WHITE THEN 2 ELSE 7

\* Pawn.can_reach: one field ahead if it is empty, two from the home rank if
\* both are empty, diagonally ahead onto an opponent piece (this board
\* records no en-passant target)
Pawn_can_reach(b, p, x, y) ==
  LET s == b.pieces[p]
      f == forward(s.color)
  IN \/ x = s.x /\ y = s.y + f /\ b.fields[<<x, y>>] = None
     \/ /\ x = s.x /\ y = s.y + 2 * f /\ s.y = home_rank(s.color)
        /\ b.fields[<<x, s.y + f>>] = None /\ b.fields[<<x, y>>] = None
     \/ Abs(x - s.x) = 1 /\ y = s.y + f /\ b.fields[<<x, y>>] # None

\* piece.can_reach(x, y): the target is a field, is not the origin, holds no
\* piece of the same colour and is one the piece moves to; a king does not
\* step onto a field attacked after the step.
can_reach(b, p, x, y) ==
  LET s == b.pieces[p]
      g == <<x, y>>
  IN IF g \notin Fields THEN Raise(InvalidFieldError)
     ELSE IF g = <<s.x, s.y>> THEN Ret(FALSE)
     ELSE IF b.fields[g] # None /\ b.pieces[b.fields[g]].color = s.color
     THEN Ret(FALSE)
     ELSE IF s.type = PAWN THEN Ret(Pawn_can_reach(b, p, x, y))
     ELSE IF s.type = KING
     THEN Ret(/\ Attacks(b, p, g)
              /\ ~Attacked(put_piece(b, p, x, y), opp_color(s.color), g))
     ELSE Ret(Attacks(b, p, g))

-----------------------------------------------------------------------------
(* Check detection (board.py)                                              *)

\* Board.is_field_attacked(color, x, y): piece.can_attack(x, y) is Attacks
is_field_attacked(b, color, x, y) ==
  IF color \notin {WHITE, BLACK} THEN Raise(AssertionError)
  ELSE IF x = 0 \/ y = 0 THEN Raise(AssertionError)
  ELSE Ret(\E piece \in (IF color = WHITE THEN b.white_pieces
                                          ELSE b.black_pieces) :
             Attacks(b, piece, <<x, y>>))

\* Board.is_king_in_check(color). For black the arguments are the white
\* registry (where a colour is expected) and black_king.x, black_king.y,
\* evaluated before the call.
is_king_in_check(b, color) ==
  IF color \notin {WHITE, BLACK} THEN Raise(AssertionError)
  ELSE IF color = WHITE
  THEN IF b.white_king = None THEN Raise(AttributeError)
       ELSE is_field_attacked(b, BLACK, b.pieces[b.white_king].x,
                              b.pieces[b.white_king].y)
  ELSE IF b.black_king = None THEN Raise(AttributeError)
       ELSE Raise(AssertionError)

-----------------------------------------------------------------------------
(* BoardManager (board.py)                                                 *)

\* BoardManager.switch_player
switch_player(player) == IF player = BLACK THEN WHITE ELSE BLACK

\* BoardManager.move_piece raising InvalidPieceError for an empty origin
move_piece_wrong_error(b, player, possible, from_x, from_y, to_x, to_y) ==
  LET piece == get_piece(b, from_x, from_y)
      Rejected(e) == {[err |-> e, board |-> b, player_to_move |-> player]}
  IN IF piece.err # NoError THEN Rejected(piece.err)
     ELSE IF piece.value = None THEN Rejected(InvalidPieceError)
     ELSE IF b.pieces[piece.value].color # player
     THEN Rejected(InvalidPieceError)
     ELSE {[err |-> o.err,
            board |-> o.board,
            player_to_move |-> IF o.err = NoError
                               THEN switch_player(player) ELSE player] :
             o \in move(b, piece.value, possible[piece.value], to_x, to_y)}

\* BoardManager.move_piece: the possible outcomes of one request, each the
\* exception raised (or none), the board and the player to move afterwards.
\* piece.move_piece(to_x, to_y) is Piece.move; possible is PossibleMoves.
move_piece(b, player, possible, from_x, from_y, to_x, to_y) ==
  LET piece == get_piece(b, from_x, from_y)
      Rejected(e) == {[err |-> e, board |-> b, player_to_move |-> player]}
  IN IF piece.err # NoError THEN Rejected(piece.err)
     ELSE IF piece.value = None THEN Rejected(NoPieceError)
     ELSE IF b.pieces[piece.value].color # player
     THEN Rejected(InvalidPieceError)
     ELSE {[err |-> o.err,
            board |-> o.board,
            player_to_move |-> IF o.err = NoError
                               THEN switch_player(player) ELSE player] :
             o \in move(b, piece.value, possible[piece.value], to_x, to_y)}

-----------------------------------------------------------------------------
(* Game (chess.py)                                                         *)

\* Board.pick_piece(x, y) of chess.py: the piece picked and the board left
Game_pick_piece(b, x, y) ==
  IF x <= 0 \/ x > 8 \/ y <= 0 \/ y > 8
  THEN [err |-> InvalidFieldError, value |-> None, board |-> b]
  ELSE [err |-> NoError, value |-> b.fields[<<x, y>>],
        board |-> [b EXCEPT !.fields[<<x, y>>] = None]]

\* Board.put_piece(piece, x, y) of chess.py
Game_put_piece(b, p, x, y) ==
  [b EXCEPT !.pieces[p].x = x, !.pieces[p].y = y, !.fields[<<x, y>>] = p]

\* Game.move_piece(origin, target): the exception raised (or none), the board
\* and the player to move afterwards
Game_move_piece(b, player, origin, target) ==
  LET picked == Game_pick_piece(b, origin[1], origin[2])
      piece == picked.value
      reach == can_reach(picked.board, piece, target[1], target[2])
      back == Game_put_piece(picked.board, piece, origin[1], origin[2])
      Raised(e, after) ==
        [err |-> e, board |-> after, player_to_move |-> player]
  IN IF picked.err # NoError THEN Raised(picked.err, picked.board)
     ELSE IF piece = None THEN Raised(NoPieceError, picked.board)
     ELSE IF b.pieces[piece].color # player
     THEN Raised(InvalidPieceError, back)
     ELSE IF reach.err # NoError THEN Raised(reach.err, back)
     ELSE IF ~reach.value THEN Raised(IllegalMoveError, back)
     ELSE [err |-> NoError,
           board |-> Game_put_piece(picked.board, piece, target[1], target[2]),
           player_to_move |-> player]

-----------------------------------------------------------------------------
(* Boards                                                                  *)

\* Board.__init__ around a given set-up: the fields grid and the registries
\* hold the pieces, white_king is set and black_king is not.
Board(pieces) ==
  [fields |-> [f \in Fields |->
                 IF \E i \in DOMAIN pieces : <<pieces[i].x, pieces[i].y>> = f
                 THEN CHOOSE i \in DOMAIN pieces :
                        <<pieces[i].x, pieces[i].y>> = f
                 ELSE None],
   pieces |-> pieces,
   white_pieces |-> {i \in DOMAIN pieces : pieces[i].color = WHITE},
   black_pieces |-> {i \in DOMAIN pieces : pieces[i].color = BLACK},
   white_king |-> IF \E i \in DOMAIN pieces :
                        pieces[i].type = KING /\ pieces[i].color = WHITE
                   THEN CHOOSE i \in DOMAIN pieces :
                          pieces[i].type = KING /\ pieces[i].color = WHITE
                   ELSE None,
   black_king |-> None,
   long_castle_allowed |-> [c \in {WHITE, BLACK} |-> TRUE],
   short_castle_allowed |-> [c \in {WHITE, BLACK} |-> TRUE]]

\* Board._fill_starting_board
BackRank == <<ROOK, KNIGHT, BISHOP, QUEEN, KING, BISHOP, KNIGHT, ROOK>>
fill_starting_board ==
  [i \in 1..32 |->
     LET x == (i - 1) \div 4
         k == (i - 1) % 4
     IN CASE k = 0 -> Piece(BackRank[x + 1], WHITE, x + 1, 1)
          [] k = 1 -> Piece(PAWN, WHITE, x + 1, 2)
          [] k = 2 -> Piece(BackRank[x + 1], BLACK, x + 1, 8)
          [] k = 3 -> Piece(PAWN, BLACK, x + 1, 7)]

\* A piece that has moved before: its flag is what set_position leaves.
Moved(piece) == [piece EXCEPT !.castle = FALSE]

\* Boards the engine is started on: the starting board and boards set up
\* with a few pieces, as the tests set pieces on boards of their own.
StartingBoard == Board(fill_starting_board)

\* Kings at home, two pawns a side.
PawnBoard ==
  Board(<<Piece(KING, WHITE, 5, 1), Piece(KING, BLACK, 5, 8),
          Piece(PAWN, WHITE, 4, 4), Piece(PAWN, WHITE, 7, 2),
          Piece(PAWN, BLACK, 3, 6), Piece(PAWN, BLACK, 7, 7)>>)

\* Kings and rooks at home, nothing between them.
CastleBoard ==
  Board(<<Piece(KING, WHITE, 5, 1), Piece(KING, BLACK, 5, 8),
          Piece(ROOK, WHITE, 1, 1), Piece(ROOK, WHITE, 8, 1),
          Piece(ROOK, BLACK, 1, 8), Piece(ROOK, BLACK, 8, 8)>>)

\* A white king and a black rook on the fourth rank, pawns between them.
RankBoard ==
  Board(<<Moved(Piece(KING, WHITE, 1, 4)), Piece(KING, BLACK, 5, 8),
          Piece(PAWN, WHITE, 5, 4), Piece(PAWN, WHITE, 8, 2),
          Piece(PAWN, BLACK, 4, 6), Moved(Piece(ROOK, BLACK, 7, 4)),
          Piece(PAWN, BLACK, 7, 3)>>)

\* Kings at home, a black rook in its corner and a white pawn below it.
CornerBoard ==
  Board(<<Piece(KING, WHITE, 5, 1), Piece(KING, BLACK, 5, 8),
          Piece(PAWN, WHITE, 8, 6), Piece(ROOK, BLACK, 8, 8)>>)

\* A white pawn a step away from giving check to a black king that has
\* moved, a black pawn beside the king to take it.
CheckBoard ==
  Board(<<Piece(KING, WHITE, 5, 1), Moved(Piece(KING, BLACK, 5, 6)),
          Piece(PAWN, WHITE, 4, 4), Piece(PAWN, BLACK, 3, 6)>>)

Boards ==
  {StartingBoard, PawnBoard, CastleBoard, RankBoard, CornerBoard, CheckBoard}

-----------------------------------------------------------------------------
(* The engine                                                              *)

VARIABLES
  engine,          \* the class the game runs on: BoardManager or Game
  board,           \* its board
  player_to_move,  \* its player_to_move
  result,          \* how the last request ended: "ok" or the exception
  request,         \* the last request: whose turn it was, what stood on its
                   \* origin, and whether origin and target were fields of
                   \* the board
  last_move,       \* the last accepted move
  ply              \* the number of accepted moves

vars == <<engine, board, player_to_move, result, request, last_move, ply>>

NoMove == [piece |-> None, from |-> <<0, 0>>, to |-> <<0, 0>>, taken |-> None]

OnBoard(f) == f \in Fields

\* What the request finds on its origin: the colour of the piece there,
\* "empty", or "off" the board.
Origin(b, f) ==
  IF ~OnBoard(f) THEN "off"
  ELSE IF b.fields[f] = None THEN "empty"
  ELSE b.pieces[b.fields[f]].color

Engines == {"BoardManager", "Game"}

\* BoardManager.__init__ on one of the boards, or Game.__init__
Init ==
  /\ engine \in Engines
  /\ board \in (IF engine = "Game" THEN {StartingBoard} ELSE Boards)
  /\ player_to_move = WHITE
  /\ result = "start"
  /\ request = [turn |-> WHITE, origin |-> "off",
                from_ok |-> FALSE, to_ok |-> FALSE]
  /\ last_move = NoMove
  /\ ply = 0

\* What a request leaves in result, request, last_move and ply
Record(err, from, to) ==
  /\ result' = IF err = NoError THEN "ok" ELSE err
  /\ request' = [turn |-> player_to_move, origin |-> Origin(board, from),
                 from_ok |-> OnBoard(from), to_ok |-> OnBoard(to)]
  /\ last_move' = IF err = NoError
                  THEN [piece |-> board.fields[from], from |-> from,
                        to |-> to, taken |-> board.fields[to]]
                  ELSE last_move
  /\ ply' = IF err = NoError THEN ply + 1 ELSE ply

\* One call of BoardManager.move_piece(from_x, from_y, to_x, to_y)
MovePiece(possible, from, to) ==
  /\ \E o \in move_piece(board, player_to_move, possible,
                         from[1], from[2], to[1], to[2]) :
       /\ board' = o.board
       /\ player_to_move' = o.player_to_move
       /\ Record(o.err, from, to)
  /\ UNCHANGED engine

\* One call of Game.move_piece(origin, target)
GameMovePiece(from, to) ==
  /\ \E o \in {Game_move_piece(board, player_to_move, from, to)} :
       /\ board' = o.board
       /\ player_to_move' = o.player_to_move
       /\ Record(o.err, from, to)
  /\ UNCHANGED engine

\* The targets tried from an origin. For a piece of the player to move: every
\* field, and the squares off the board furthest along its file, its rank
\* and the long diagonal. For an origin the request is turned down on before
\* the target is looked at: the corners of the long diagonal, on and off the
\* board.
Targets(from) ==
  IF Origin(board, from) = player_to_move
  THEN Fields \cup {<<from[1], c>> : c \in Edge}
              \cup {<<c, from[2]>> : c \in Edge}
              \cup {<<c, c>> : c \in Edge}
  ELSE {<<c, c>> : c \in {1, Size} \cup Edge}

\* The origins tried: every field, and the squares off the board furthest
\* along the first file, the first rank and the long diagonal.
Origins ==
  Fields \cup {<<1, c>> : c \in Edge} \cup {<<c, 1>> : c \in Edge}
         \cup {<<c, c>> : c \in Edge}

\* The requests made of a BoardManager, until MaxPly of them are accepted
BoardManagerRequest ==
  /\ engine = "BoardManager"
  /\ ply < MaxPly
  /\ \E possible \in {PossibleMoves(board, player_to_move)} :
       \E from \in Origins : \E to \in Targets(from) :
         MovePiece(possible, from, to)

\* The requests made of a Game, until MaxGamePly of them are accepted
GameRequest ==
  /\ engine = "Game"
  /\ ply < MaxGamePly
  /\ \E from \in Origins : \E to \in Targets(from) : GameMovePiece(from, to)

Next == BoardManagerRequest \/ GameRequest

Spec == Init /\ [][Next]_vars

-----------------------------------------------------------------------------
(* The pieces on their own: what a piece set up on a board answers         *)

\* Other pieces set up beside the piece asked on a board of sliding pieces.
MaxOthers == 2

\* The field the sliding pieces are asked on
SliderField == <<5, 5>>

\* The fields on the rank, the file and the diagonals of a field
Rays(f) ==
  {g \in Fields \ {f} :
     g[1] = f[1] \/ g[2] = f[2] \/ Abs(g[1] - f[1]) = Abs(g[2] - f[2])}

\* The pieces of a set in a sequence
RECURSIVE SeqOf(_)
SeqOf(set) ==
  IF set = {} THEN <<>>
  ELSE LET one == CHOOSE q \in set : TRUE
       IN <<one>> \o SeqOf(set \ {one})

\* Up to most pawns of either colour set on some of the fields, one a field
RECURSIVE Pawns(_, _)
Pawns(fields, most) ==
  IF most = 0 THEN {{}}
  ELSE LET fewer == Pawns(fields, most - 1)
       IN fewer \cup
            UNION {{set \cup {Piece(PAWN, c, f[1], f[2])} :
                      c \in {WHITE, BLACK},
                      f \in {g \in fields :
                               \A q \in set : <<q.x, q.y>> # g}} :
                   set \in fewer}

\* Other pieces set up beside a knight or a pawn asked and its king.
MaxBeside == 1

\* The field a king starts on
KingHome(color) == <<5, IF color = WHITE THEN 1 ELSE Size>>

\* The fields around a pawn: up to a file to either side and two ranks away
Near(f) ==
  {g \in Fields \ {f} : Abs(g[1] - f[1]) <= 1 /\ Abs(g[2] - f[2]) <= 2}

\* The fields a pawn of the colour has a field ahead of
WithAhead(c) ==
  {g \in Fields \ {KingHome(c)} : <<g[1], g[2] + forward(c)>> \in Fields}

\* A white rook, bishop or queen with other pieces on its rays
SliderBoard(type, others) ==
  Board(<<Piece(type, WHITE, SliderField[1], SliderField[2])>>
          \o SeqOf(others))

\* A white king (fresh, or having moved), queen, rook or bishop alone on a
\* field
AloneBoard(type, f, moved) ==
  Board(<<IF moved THEN Moved(Piece(type, WHITE, f[1], f[2]))
                   ELSE Piece(type, WHITE, f[1], f[2])>>)

\* A white knight on a field, its king at home, and other pieces
KnightBoard(f, others) ==
  Board(<<Piece(KNIGHT, WHITE, f[1], f[2]),
          Piece(KING, WHITE, KingHome(WHITE)[1], KingHome(WHITE)[2])>>
          \o SeqOf(others))

\* A pawn on a field, its king at home, and pawns around it that have
\* (flag) or have not advanced two squares
PawnsBoard(c, f, others, flag) ==
  Board(<<Piece(PAWN, c, f[1], f[2]),
          Piece(KING, c, KingHome(c)[1], KingHome(c)[2])>>
          \o SeqOf({[q EXCEPT !.en_passant = flag] : q \in others}))

\* The boards the pieces are asked on: a sliding piece with up to MaxOthers
\* pieces on its rays; a king, queen, rook or bishop alone on any field; a
\* knight on any field with up to MaxBeside pawns anywhere; a pawn on any
\* field it can advance from with up to MaxBeside pawns around it.
SetUp(b) ==
  \/ \E type \in {ROOK, BISHOP, QUEEN} :
       \E others \in Pawns(Rays(SliderField), MaxOthers) :
         b = SliderBoard(type, others)
  \/ \E type \in {KING, QUEEN, ROOK, BISHOP} : \E f \in Fields :
       \E moved \in BOOLEAN : b = AloneBoard(type, f, moved)
  \/ \E f \in Fields \ {KingHome(WHITE)} :
       \E others \in Pawns(Fields \ {KingHome(WHITE), f}, MaxBeside) :
         b = KnightBoard(f, others)
  \/ \E c \in {WHITE, BLACK} : \E f \in WithAhead(c) :
       \E others \in Pawns(Near(f) \ {KingHome(c)}, MaxBeside) :
         \E flag \in BOOLEAN : b = PawnsBoard(c, f, others, flag)

\* The piece asked: the first piece set on the board
Asked == 1

\* self._possible_moves() of a sliding piece
possible_moves(b, p) ==
  LET type == b.pieces[p].type
  IN CASE type = ROOK -> Line_possible_moves(b, p)
       [] type = BISHOP -> Diagonal_possible_moves(b, p)
       [] type = QUEEN -> Queen_possible_moves(b, p)
       [] OTHER -> Found({})

\* A board is set up with the piece to ask on it
ProbeInit ==
  /\ engine = "Piece"
  /\ SetUp(board)
  /\ player_to_move = board.pieces[Asked].color
  /\ result = "start"
  /\ request = [turn |-> board.pieces[Asked].color, origin |-> "off",
                from_ok |-> FALSE, to_ok |-> FALSE]
  /\ last_move = NoMove
  /\ ply = 0

\* The piece is asked _possible_moves(), get_possible_moves() and
\* can_attack_field(x, y) for every field
Probe ==
  /\ engine = "Piece"
  /\ ply = 0
  /\ result' = [scan |-> possible_moves(board, Asked),
                possible |-> get_possible_moves(board, Asked),
                attack |-> [f \in Fields |->
                              Attack(can_attack_field(board, Asked, {f}))]]
  /\ ply' = 1
  /\ UNCHANGED <<engine, board, player_to_move, request, last_move>>

ProbeNext == Probe

ProbeSpec == ProbeInit /\ [][ProbeNext]_vars

-----------------------------------------------------------------------------
(* Properties                                                              *)

\* The king of a colour is attacked by an opponent piece standing on the board
InCheck(b, color) ==
  \E k \in Standing(b) :
    /\ b.pieces[k].type = KING /\ b.pieces[k].color = color
    /\ Attacked(b, opp_color(color), <<b.pieces[k].x, b.pieces[k].y>>)

\* The step is an accepted move
Accepted == ply' = ply + 1

\* C1: a request rejected with InvalidFieldError, NoPieceError,
\* InvalidPieceError or IllegalMoveError leaves the whole engine state as it
\* was: the fields, every piece's square and flags, the registries, the king
\* references, the castling flags and the player to move.
C1_RejectedUnchanged ==
  [][result' \in ChessExceptions
       => board' = board /\ player_to_move' = player_to_move]_vars

\* C1 witness: a request was rejected as an illegal move of a piece of the
\* player to move, after accepted moves.
C1_Witness == result = IllegalMoveError /\ ply > 0

\* C2: player_to_move starts as white, flips on every accepted move and is
\* left alone by every rejected request, so the accepted moves are made by
\* white, black, white, ... in turn.
C2_Alternates ==
  /\ player_to_move = (IF ply % 2 = 0 THEN WHITE ELSE BLACK)
  /\ ply > 0 => board.pieces[last_move.piece].color = opp_color(player_to_move)

CanBeAccepted(from, to) ==
  IF engine = "Game"
  THEN Game_move_piece(board, player_to_move, from, to).err = NoError
  ELSE \E o \in move_piece(board, player_to_move,
                           PossibleMoves(board, player_to_move),
                           from[1], from[2], to[1], to[2]) : o.err = NoError

\* The kings of the player to move standing on the board
KingsToMove ==
  {k \in Standing(board) : /\ board.pieces[k].type = KING
                           /\ board.pieces[k].color = player_to_move}

Sides == {"long", "short"}

\* Castling of king k to a side: the rook's corner, and the fields the king
\* starts on, passes and ends on.
Corner(b, k, side) == <<IF side = "long" THEN 1 ELSE Size, b.pieces[k].y>>
KingPath(b, k, side) ==
  LET s == b.pieces[k]
      step == IF side = "long" THEN -1 ELSE 1
  IN <<<<s.x, s.y>>, <<s.x + step, s.y>>, <<s.x + 2 * step, s.y>>>>

\* The rules of chess: king k may castle to the side
CastlingConditions(b, k, side) ==
  LET s == b.pieces[k]
      path == KingPath(b, k, side)
      rook == b.fields[Corner(b, k, side)]
  IN /\ s.castle
     /\ path[3] \in Fields
     /\ rook # None
     /\ b.pieces[rook].type = ROOK
     /\ b.pieces[rook].color = s.color
     /\ b.pieces[rook].castle
     /\ \A h \in Between(path[1], Corner(b, k, side)) : b.fields[h] = None
     /\ \A i \in 1..3 : ~Attacked(b, opp_color(s.color), path[i])

EnPassantStep ==
  /\ Accepted
  /\ board.pieces[last_move'.piece].type = PAWN
  /\ last_move'.from[1] # last_move'.to[1]
  /\ last_move'.taken = None

\* The piece beside the capturing pawn: on the file of the target and the
\* rank of the origin.
Beside(m) == board.fields[<<m.to[1], m.from[2]>>]

C7_EnPassantCapture ==
  [][EnPassantStep =>
       LET m == last_move'
           taken == Beside(m)
           color == board.pieces[m.piece].color
       IN /\ taken # None
          /\ board.pieces[taken].type = PAWN
          /\ board.pieces[taken].color = opp_color(color)
          /\ board.pieces[taken].en_passant
          /\ board'.fields[m.to] = m.piece
          /\ <<board'.pieces[m.piece].x, board'.pieces[m.piece].y>> = m.to
          /\ board'.fields[m.from] = None
          /\ board'.fields[<<m.to[1], m.from[2]>>] = None
          /\ \A f \in Fields \ {m.from, m.to, <<m.to[1], m.from[2]>>} :
               board'.fields[f] = board.fields[f]
          /\ get_pieces(board', opp_color(color))
               = get_pieces(board, opp_color(color)) \ {taken}
          /\ taken \in get_pieces(board, opp_color(color))
          /\ get_pieces(board', color) = get_pieces(board, color)]_vars

\* C7 witness: the last accepted move was an en-passant capture, the captured
\* pawn being off the board.
C7_Witness ==
  /\ result = "ok"
  /\ board.pieces[last_move.piece].type = PAWN
  /\ last_move.from[1] # last_move.to[1]
  /\ last_move.taken = None
  /\ board.fields[<<last_move.to[1], last_move.from[2]>>] = None

\* C8: a request whose origin or target is off the board fails with
\* InvalidFieldError.
C8_OffBoardInvalidField ==
  (result # "start" /\ (~request.from_ok \/ ~request.to_ok))
    => result = InvalidFieldError

\* C9: with origin and target on the board, a request from an empty field
\* fails with NoPieceError and a request from a field holding a piece of the
\* player not to move fails with InvalidPieceError, whatever the target.
C9_OriginErrors ==
  (request.from_ok /\ request.to_ok) =>
    /\ request.origin = "empty" => result = NoPieceError
    /\ request.origin = opp_color(request.turn) => result = InvalidPieceError

\* C9 witness: black to move asked to move a white piece, both squares on the
\* board.
C9_Witness ==
  /\ request.from_ok /\ request.to_ok
  /\ request.turn = BLACK /\ request.origin = WHITE

Recorded(b, p) == <<b.pieces[p].x, b.pieces[p].y>>

StandingAgree ==
  /\ \A p \in Standing(board) : board.fields[Recorded(board, p)] = p
  /\ \A f \in Fields :
       board.fields[f] # None => Recorded(board, board.fields[f]) = f

\* The kings of a colour standing on the board
KingsOf(b, color) ==
  {k \in Standing(b) : b.pieces[k].type = KING /\ b.pieces[k].color = color}

KingPlaced(b, color) ==
  CHOOSE k \in DOMAIN b.pieces :
    b.pieces[k].type = KING /\ b.pieces[k].color = color

\* C13: for white and for black, is_king_in_check returns, and returns true
\* exactly when a piece of the opponent's registry attacks the field of the
\* colour's king, the king placed at set-up.
C13_InCheckDefined ==
  \A color \in {WHITE, BLACK} :
    LET answer == is_king_in_check(board, color)
    IN /\ answer.err = NoError
       /\ answer.value
            = \E q \in get_pieces(board, opp_color(color)) :
                Attacks(board, q, Recorded(board, KingPlaced(board, color)))

\* The directions a sliding piece moves in
Straight == {<<1, 0>>, <<-1, 0>>, <<0, 1>>, <<0, -1>>}
Slanted == {<<1, 1>>, <<1, -1>>, <<-1, 1>>, <<-1, -1>>}
Directions(type) ==
  CASE type = ROOK -> Straight
    [] type = BISHOP -> Slanted
    [] type = QUEEN -> Straight \cup Slanted
    [] OTHER -> {}

\* The field k steps from f in direction d, the steps that stay on the board
\* and those that end on a piece
Step(f, d, k) == <<f[1] + k * d[1], f[2] + k * d[2]>>
Steps(f, d) == {k \in 1..(Size - 1) : Step(f, d, k) \in Fields}
Occupied(b, f, d) == {k \in Steps(f, d) : b.fields[Step(f, d, k)] # None}

\* The first piece on the ray from f in direction d is of the colour
FirstIs(b, f, d, color) ==
  /\ Occupied(b, f, d) # {}
  /\ LET first == CHOOSE k \in Occupied(b, f, d) :
                    \A j \in Occupied(b, f, d) : k <= j
     IN b.pieces[b.fields[Step(f, d, first)]].color = color

\* The steps up to the first piece on the ray, that piece left out, and the
\* steps from it on
Before(b, f, d) ==
  {k \in Steps(f, d) : \A j \in Occupied(b, f, d) : k < j}
Beyond(b, f, d) == Steps(f, d) \ Before(b, f, d)

\* What the sliding piece asked answered: it reaches a field, it attacks it
Reaches(f) == result.scan.err = NoError /\ f \in result.scan.fields
AttacksField(f) == result.attack[f] = "True"

\* The piece asked
Self == board.pieces[Asked]
SliderAsked == ply = 1 /\ Self.type \in {ROOK, BISHOP, QUEEN}

\* C14: for a rook, bishop or queen and each of its rays, when the first
\* piece on the ray is of its own colour, the piece's field and every field
\* beyond it are neither reached nor attacked, and every empty field before
\* it is reached.
C14_OwnPieceBlocks ==
  SliderAsked =>
    \A d \in Directions(Self.type) :
      FirstIs(board, Recorded(board, Asked), d, Self.color) =>
        /\ \A k \in Beyond(board, Recorded(board, Asked), d) :
             /\ ~Reaches(Step(Recorded(board, Asked), d, k))
             /\ ~AttacksField(Step(Recorded(board, Asked), d, k))
        /\ \A k \in Before(board, Recorded(board, Asked), d) :
             Reaches(Step(Recorded(board, Asked), d, k))

\* Whenever _possible_moves returns, the rays blocked by an own piece are as
\* C14 says
OwnPieceBlocksWhenReturned ==
  (SliderAsked /\ result.scan.err = NoError) => C14_OwnPieceBlocks

\* Some ray blocked by an own piece was scanned and _possible_moves returned
OwnPieceBlocksReturned ==
  /\ SliderAsked /\ result.scan.err = NoError
  /\ \E d \in Directions(Self.type) :
       /\ FirstIs(board, Recorded(board, Asked), d, Self.color)
       /\ Before(board, Recorded(board, Asked), d) # {}

\* The step that ends on the first piece of the ray
First(b, f, d) ==
  CHOOSE k \in Occupied(b, f, d) : \A j \in Occupied(b, f, d) : k <= j

\* C15: for a rook, bishop or queen and each of its rays, when the first
\* piece on the ray is an opponent piece, the piece's field is reached and
\* attacked, and no field beyond it is reached or attacked.
C15_OpponentPieceCaptured ==
  SliderAsked =>
    \A d \in Directions(Self.type) :
      FirstIs(board, Recorded(board, Asked), d, opp_color(Self.color)) =>
        LET first == First(board, Recorded(board, Asked), d)
        IN /\ Reaches(Step(Recorded(board, Asked), d, first))
           /\ AttacksField(Step(Recorded(board, Asked), d, first))
           /\ \A k \in Beyond(board, Recorded(board, Asked), d) \ {first} :
                /\ ~Reaches(Step(Recorded(board, Asked), d, k))
                /\ ~AttacksField(Step(Recorded(board, Asked), d, k))

\* Whenever _possible_moves returns, a ray whose first piece is an opponent
\* piece short of the last file and the last rank is as C15 says
OpponentPieceCapturedInside ==
  (SliderAsked /\ result.scan.err = NoError) =>
    \A d \in Directions(Self.type) :
      (/\ FirstIs(board, Recorded(board, Asked), d, opp_color(Self.color))
       /\ LET at == Step(Recorded(board, Asked), d,
                         First(board, Recorded(board, Asked), d))
          IN at[1] < Size /\ at[2] < Size) =>
        LET first == First(board, Recorded(board, Asked), d)
        IN /\ Reaches(Step(Recorded(board, Asked), d, first))
           /\ AttacksField(Step(Recorded(board, Asked), d, first))
           /\ \A k \in Beyond(board, Recorded(board, Asked), d) \ {first} :
                /\ ~Reaches(Step(Recorded(board, Asked), d, k))
                /\ ~AttacksField(Step(Recorded(board, Asked), d, k))

\* What the piece asked answered: get_possible_moves() returned and the field
\* is among the moves
Possible(f) ==
  /\ result.possible.returns /\ result.possible.errs = {}
  /\ f \in result.possible.moves

\* The fields a king, rook, bishop or queen on s moves to on an empty board
Geometric(type, s, f) ==
  LET dx == Abs(f[1] - s[1])
      dy == Abs(f[2] - s[2])
  IN /\ f # s
     /\ CASE type = KING -> dx <= 1 /\ dy <= 1
          [] type = ROOK -> dx = 0 \/ dy = 0
          [] type = BISHOP -> dx = dy
          [] type = QUEEN -> dx = 0 \/ dy = 0 \/ dx = dy

\* The piece asked stands alone on the board
Alone == ply = 1 /\ Cardinality(Standing(board)) = 1

\* C16: a king, queen, rook or bishop alone on the board, on any field,
\* reaches exactly the fields of the board its kind moves to (king: the
\* adjacent ones; rook: its file and rank; bishop: its diagonals; queen:
\* both), the last file and the last rank included, and never its own field.
C16_AloneGeometry ==
  (Alone /\ Self.type \in {KING, QUEEN, ROOK, BISHOP}) =>
    \A f \in Fields :
      (IF Self.type = KING THEN Possible(f) ELSE Reaches(f))
        <=> Geometric(Self.type, Recorded(board, Asked), f)

\* A king that has moved, alone and away from the edges of the board, reaches
\* exactly the adjacent fields
KingInsideGeometry ==
  (/\ Alone /\ Self.type = KING /\ ~Self.castle
   /\ Self.x \in 2..(Size - 2) /\ Self.y \in 2..(Size - 2)) =>
    \A f \in Fields :
      Possible(f) <=> Geometric(KING, Recorded(board, Asked), f)

\* A knight's jump from s to f
Jump(s, f) == {Abs(f[1] - s[1]), Abs(f[2] - s[2])} = {1, 2}

\* The field holds no piece of the colour of the piece asked
NotOwn(f) ==
  board.fields[f] = None \/ board.pieces[board.fields[f]].color # Self.color

\* With the piece asked moved to the field, its king is not attacked
SafeAfter(f) ==
  ~InCheck(Board_move_piece(board, Asked, f[1], f[2]), Self.color)

\* C17: a knight attacks a field of the board exactly when the field is a
\* knight's jump away (file and rank differ by 1 and 2), and reaches it
\* exactly when, besides, the field holds no piece of its colour and the move
\* leaves its king unattacked; nothing else on the board matters.
C17_KnightJumps ==
  (ply = 1 /\ Self.type = KNIGHT) =>
    \A f \in Fields :
      /\ AttacksField(f) <=> Jump(Recorded(board, Asked), f)
      /\ Possible(f) <=> /\ Jump(Recorded(board, Asked), f)
                         /\ NotOwn(f)
                         /\ SafeAfter(f)

\* A knight attacks exactly the fields a jump away
KnightAttacksJumps ==
  (ply = 1 /\ Self.type = KNIGHT) =>
    \A f \in Fields : AttacksField(f) <=> Jump(Recorded(board, Asked), f)

\* A knight beside its king alone, whose jumps all stay within files and
\* ranks 1 to 7, reaches the fields C17 says
KnightInsideJumps ==
  (/\ ply = 1 /\ Self.type = KNIGHT
   /\ Self.x \in 3..(Size - 3) /\ Self.y \in 3..(Size - 3)
   /\ Cardinality(Standing(board)) = 2) =>
    \A f \in Fields :
      Possible(f) <=> /\ Jump(Recorded(board, Asked), f)
                      /\ NotOwn(f)
                      /\ SafeAfter(f)

\* The field holds no piece
Empty(f) == board.fields[f] = None

\* The fields one and two squares straight ahead of the pawn asked
Ahead(n) == <<Self.x, Self.y + n * forward(Self.color)>>

\* C18: the moves of a pawn along its file are the step to the field straight
\* ahead when that field is empty, and the advance of two squares when the
\* pawn stands on the rank it is set up on (2 for white, 7 for black) and
\* both fields ahead are empty; it reaches no field of its own rank and no
\* field behind it.
C18_PawnAdvances ==
  (ply = 1 /\ Self.type = PAWN) =>
    /\ Possible(Ahead(1)) <=> Empty(Ahead(1)) /\ SafeAfter(Ahead(1))
    /\ Ahead(2) \in Fields =>
         (Possible(Ahead(2)) <=> /\ Self.y = home_rank(Self.color)
                                 /\ Empty(Ahead(1)) /\ Empty(Ahead(2))
                                 /\ SafeAfter(Ahead(2)))
    /\ \A f \in Fields :
         (f[2] - Self.y) * forward(Self.color) <= 0 => ~Possible(f)
    /\ \A f \in Fields \ {Ahead(1), Ahead(2)} : f[1] = Self.x => ~Possible(f)

\* A pawn reaches no field of its own rank, no field behind it and no field
\* of its file other than the two ahead
PawnNeverBack ==
  (ply = 1 /\ Self.type = PAWN) =>
    /\ \A f \in Fields :
         (f[2] - Self.y) * forward(Self.color) <= 0 => ~Possible(f)
    /\ \A f \in Fields \ {Ahead(1), Ahead(2)} : f[1] = Self.x => ~Possible(f)

\* On the starting board of a BoardManager the request to move the white
\* pawn from (5,2) to (5,4) can be accepted
FreshDoubleStep ==
  (engine = "BoardManager" /\ board = StartingBoard /\ ply = 0) =>
    CanBeAccepted(<<5, 2>>, <<5, 4>>)

\* The fields of the board diagonally ahead of the pawn asked
DiagonalsAhead ==
  {f \in Fields : Abs(f[1] - Self.x) = 1
                    /\ f[2] = Self.y + forward(Self.color)}

\* The field holds an opponent piece, or is empty with an opponent pawn that
\* advanced two squares beside the pawn asked, on the field's file
Capture(f) ==
  \/ ~Empty(f) /\ board.pieces[board.fields[f]].color = opp_color(Self.color)
  \/ /\ Empty(f)
     /\ ~Empty(<<f[1], Self.y>>)
     /\ LET beside == board.pieces[board.fields[<<f[1], Self.y>>]]
        IN /\ beside.type = PAWN
           /\ beside.color = opp_color(Self.color)
           /\ beside.en_passant

\* C19: a pawn with a field ahead of it attacks exactly the fields of the
\* board diagonally ahead of it, on the last rank and the edge files as
\* elsewhere and whatever stands on them, and never the field straight ahead;
\* it reaches such a field only if an opponent piece stands on it or it is
\* the field behind an opponent pawn that has just advanced two squares.
C19_PawnAttacksDiagonals ==
  (ply = 1 /\ Self.type = PAWN) =>
    /\ \A f \in Fields : AttacksField(f) <=> f \in DiagonalsAhead
    /\ \A f \in DiagonalsAhead : Possible(f) => Capture(f)

\* A pawn reaches a field diagonally ahead only to capture, and attacks no
\* field but those diagonally ahead
PawnCapturesOnly ==
  (ply = 1 /\ Self.type = PAWN) =>
    /\ \A f \in Fields : AttacksField(f) => f \in DiagonalsAhead
    /\ \A f \in DiagonalsAhead : Possible(f) => Capture(f)

\* The corner the rook of a colour starts in on a side, and the board's
\* castling flag of the colour for the side
RookCorner(color, side) ==
  <<IF side = "long" THEN 1 ELSE Size, KingHome(color)[2]>>
Allowed(b, color, side) ==
  IF side = "long" THEN b.long_castle_allowed[color]
  ELSE b.short_castle_allowed[color]

\* The step is an accepted move after which the colour may no longer castle
\* to the side: its king moves, its rook leaves the corner of the side, or a
\* piece takes that rook in its corner.
Lapses(color, side) ==
  /\ Accepted
  /\ LET mover == board.pieces[last_move'.piece]
     IN \/ mover.type = KING /\ mover.color = color
        \/ /\ mover.type = ROOK /\ mover.color = color
           /\ last_move'.from = RookCorner(color, side)
        \/ /\ last_move'.taken # None
           /\ last_move'.to = RookCorner(color, side)
           /\ board.pieces[last_move'.taken].type = ROOK
           /\ board.pieces[last_move'.taken].color = color

\* The step is an accepted castling of the colour to the side: its king
\* moves two files
CastlingStep(color, side) ==
  /\ Accepted
  /\ board.pieces[last_move'.piece].type = KING
  /\ board.pieces[last_move'.piece].color = color
  /\ last_move'.to[1] - last_move'.from[1] = (IF side = "long" THEN -2 ELSE 2)

PieceFlagsLapse ==
  [][/\ \A q \in DOMAIN board.pieces :
          board'.pieces[q].castle => board.pieces[q].castle
     /\ (Accepted /\ engine = "BoardManager"
           /\ board.pieces[last_move'.piece].type \in {KING, ROOK})
          => ~board'.pieces[last_move'.piece].castle
     /\ \A color \in {WHITE, BLACK} : \A side \in Sides :
          CastlingStep(color, side) => board.pieces[last_move'.piece].castle]_vars

\* What the request to move from one square to another can do in the current
\* state: each outcome is the exception raised (or none), the board and the
\* player to move afterwards.
Outcomes(possible, from, to) ==
  IF engine = "Game"
  THEN {Game_move_piece(board, player_to_move, from, to)}
  ELSE move_piece(board, player_to_move, possible,
                  from[1], from[2], to[1], to[2])

\* C21: a request that is rejected leaves the board and the player to move as
\* they were, and in every state a request that can be rejected is rejected
\* with one error only; so the same request repeated is rejected with the
\* same error every time, and the requests after it find the state the first
\* one found.
C21_RejectionRepeats ==
  LET possible == IF engine = "Game" THEN <<>>
                  ELSE PossibleMoves(board, player_to_move)
  IN \A from \in Origins : \A to \in Targets(from) :
       LET outcomes == Outcomes(possible, from, to)
       IN \A o \in outcomes :
            o.err # NoError =>
              /\ o.board = board
              /\ o.player_to_move = player_to_move
              /\ \A other \in outcomes : other.err = o.err

\* C21 witness: after accepted moves a BoardManager has rejected a request as
\* an illegal move, and in the state it left the player to move has a request
\* that is rejected as an illegal move.
C21_Witness ==
  /\ engine = "BoardManager"
  /\ result = IllegalMoveError
  /\ ply > 0
  /\ \E from \in Origins : \E to \in Targets(from) :
       \E o \in Outcomes(PossibleMoves(board, player_to_move), from, to) :
         o.err = IllegalMoveError

\* The piece moves to the field by the geometry of chess: the field is on the
\* board, holds no piece of its colour and is one the piece moves to or
\* captures on.
GeometryLegal(b, p, g) ==
  /\ g \in Fields
  /\ b.fields[g] # None => b.pieces[b.fields[g]].color # b.pieces[p].color
  /\ IF b.pieces[p].type = PAWN THEN Pawn_can_reach(b, p, g[1], g[2])
     ELSE Attacks(b, p, g)

\* The board resulting from the move: the piece on the field is taken off the
\* board and the piece moved onto it
Resulting(b, p, g) ==
  Board_move_piece(IF b.fields[g] = None THEN b
                   ELSE remove_piece(b, b.fields[g]),
                   p, g[1], g[2])

SafeQuietMovesAccepted ==
  InCheck(board, player_to_move) =>
    \A p \in Standing(board) : \A g \in Fields :
      (/\ board.pieces[p].color = player_to_move
       /\ board.fields[g] = None
       /\ g[1] < Size /\ g[2] < Size
       /\ get_possible_moves(board, p).errs = {}
       /\ GeometryLegal(board, p, g)
       /\ ~InCheck(Resulting(board, p, g), player_to_move))
        => CanBeAccepted(Recorded(board, p), g)

\* A king in check has been moved out of it onto an empty field
SafeQuietMoveMade ==
  /\ result = "ok"
  /\ last_move.taken = None
  /\ board.pieces[last_move.piece].type = KING
  /\ InCheck(Board_move_piece(board, last_move.piece,
                              last_move.from[1], last_move.from[2]),
             board.pieces[last_move.piece].color)

Flagged(b) ==
  {p \in Standing(b) : b.pieces[p].type = PAWN /\ b.pieces[p].en_passant}

FlagSetByAdvance ==
  [][\A p \in DOMAIN board.pieces :
       (board'.pieces[p].en_passant /\ ~board.pieces[p].en_passant) =>
         /\ Accepted
         /\ last_move'.piece = p
         /\ Abs(last_move'.to[2] - last_move'.from[2]) = 2]_vars

\* The pieces of a colour standing on the board
StandingOf(b, color) == {q \in Standing(b) : b.pieces[q].color = color}

\* C25: an accepted move takes no piece of the mover's colour off the board
\* or out of its registry and at most one opponent piece: the mover's pieces
\* are those there were, the opponent's are those there were but for at most
\* one, en passant included.
C25_AtMostOneTaken ==
  [][Accepted =>
       LET own == board.pieces[last_move'.piece].color
           opp == opp_color(own)
       IN /\ StandingOf(board', own) = StandingOf(board, own)
          /\ get_pieces(board', own) = get_pieces(board, own)
          /\ StandingOf(board', opp) \subseteq StandingOf(board, opp)
          /\ Cardinality(StandingOf(board, opp) \ StandingOf(board', opp)) <= 1
          /\ get_pieces(board', opp) \subseteq get_pieces(board, opp)
          /\ Cardinality(get_pieces(board, opp) \ get_pieces(board', opp)) <= 1]_vars

\* C25 witness: the last accepted move took the opponent piece that stood on
\* its target off the board.
C25_Witness ==
  /\ result = "ok"
  /\ last_move.taken # None
  /\ board.pieces[last_move.taken].color
       # board.pieces[last_move.piece].color
  /\ last_move.taken \notin Standing(board)
  /\ board.fields[last_move.to] = last_move.piece

=============================================================================
